---- MODULE Spec2Model ----
(***************************************************************************)
(* A model of gpu_bytes (src/src/lib.rs): the byte accumulator GpuBytes,   *)
(* its two facades Std140Bytes / Std430Bytes, and the encoders of the      *)
(* scalars, vectors, matrices, composite buffers and Vec<T>.               *)
(*                                                                         *)
(* A buffer is a record [bytes, alignment, layout, panicked].  The first   *)
(* three fields are the fields of struct GpuBytes; panicked records that   *)
(* the call that was building or mutating the buffer unwound with a panic  *)
(* (a remainder by zero, a subtraction overflow, or the explicit panic!),  *)
(* the other fields then hold what the buffer held when it unwound.        *)
(***************************************************************************)
EXTENDS Integers, Sequences, FiniteSets

\* Number of facade calls made on the buffer under construction.
MaxOps == 3
\* write and write_array are called only while the buffer holds at most this
\* many bytes; align and align_to are called on a buffer of any length.
MaxBytes == 16
\* Largest slice handed to write_array, and largest Vec<T> capacity.
MaxLen == 2

VARIABLES buf, pre, op, arg, nops

vars == <<buf, pre, op, arg, nops>>

Layouts == {"Std140", "Std430"}

Max(a, b) == IF a >= b THEN a ELSE b

Zeros(n) == [i \in 1..n |-> 0]

\* GpuBytes::new: Default gives no bytes and alignment 0.
New(layout) ==
    [bytes |-> <<>>, alignment |-> 0, layout |-> layout, panicked |-> FALSE]

Panic(self) == [self EXCEPT !.panicked = TRUE]

\* The padding without its final % align: a whole align at an aligned offset.
PaddingNoWrap(offset, align) == align - (offset % align)

\* (align - (offset % align)) % align, evaluated by callers only for align # 0
\* (offset % 0 panics in Rust).
Padding(offset, align) == (align - (offset % align)) % align

\* usize::next_multiple_of
NextMultipleOf(n, m) == IF n % m = 0 THEN n ELSE n + (m - (n % m))

\* write_slice assigning the alignment instead of taking the maximum.
WriteSliceResetsAlignment(self, data, align) ==
    IF align = 0
    THEN Panic(self)
    ELSE [self EXCEPT
            !.alignment = align,
            !.bytes = self.bytes \o Zeros(Padding(Len(self.bytes), align)) \o data]

\* GpuBytes::write_slice: raise the alignment, pad, append.
WriteSlice(self, data, align) ==
    LET raised == [self EXCEPT !.alignment = Max(self.alignment, align)]
    IN  IF align = 0
        THEN Panic(raised)
        ELSE [raised EXCEPT
                !.bytes = self.bytes
                            \o Zeros(Padding(Len(self.bytes), align))
                            \o data]

\* GpuBytes::write; data is the value's encoding (as_gpu_bytes is a clone).
\* An encoder that panicked unwinds through the call before write_slice runs.
Write(self, data) ==
    IF data.panicked
    THEN Panic(self)
    ELSE WriteSlice(self, data.bytes, data.alignment)

\* GpuBytes::align_to (and the facades' copies of it): pad, set the alignment.
AlignTo(self, align) ==
    IF self.panicked THEN self
    ELSE IF align = 0
    THEN Panic(self)
    ELSE [self EXCEPT
            !.bytes = self.bytes \o Zeros(Padding(Len(self.bytes), align)),
            !.alignment = align]

\* align padding to a fixed 16 instead of the running alignment.
AlignToSixteen(self) == AlignTo(self, 16)

\* GpuBytes::align
Align(self) == AlignTo(self, self.alignment)

RECURSIVE WriteArrayFrom(_, _, _)

\* The loop with the Std140 arm padding to the element's own alignment.
WriteArrayFromNoSixteen(self, data, i) ==
    IF i > Len(data) \/ self.panicked
    THEN self
    ELSE LET elem == IF data[i].panicked THEN data[i] ELSE Align(data[i])
         IN  WriteArrayFrom(Write(self, elem), data, i + 1)

\* The loop with the elements written as they are, not padded first.
WriteArrayFromUnpadded(self, data, i) ==
    IF i > Len(data) \/ self.panicked
    THEN self
    ELSE WriteArrayFrom(Write(self, data[i]), data, i + 1)

\* The loop of GpuBytes::write_array from element i on; data holds the
\* elements' encodings.
WriteArrayFrom(self, data, i) ==
    IF i > Len(data) \/ self.panicked
    THEN self
    ELSE LET elem == IF data[i].panicked
                     THEN data[i]
                     ELSE IF self.layout = "Std140"
                     THEN AlignTo(data[i], NextMultipleOf(data[i].alignment, 16))
                     ELSE Align(data[i])
         IN  WriteArrayFrom(Write(self, elem), data, i + 1)

WriteArray(self, data) == WriteArrayFrom(self, data, 1)

\* bytemuck::cast of one 4-byte component on a little-endian target.
ToLeBytes(x) ==
    << x % 256, (x \div 256) % 256, (x \div 65536) % 256, (x \div 16777216) % 256 >>

\* bytemuck::cast of a scalar or vector: its components' bytes, in order.
RECURSIVE Cast(_)
Cast(c) ==
    IF c = <<>> THEN <<>> ELSE ToLeBytes(Head(c)) \o Cast(Tail(c))

\* The align = ... literals of the primitive_impl_std140_std430! instances.
PrimitiveAlign(kind) ==
    CASE kind = "Scalar" -> 4
      [] kind = "Vec2"   -> 8
      [] kind = "Vec3"   -> 16
      [] kind = "Vec4"   -> 16

\* The columns = ... literals of the matrix macro's instances.
Columns(kind) ==
    CASE kind = "Mat3" -> 3
      [] kind = "Mat4" -> 4

\* primitive_impl_std140_std430!: the same body for as_std140 and as_std430.
PrimitiveAsBytes(layout, v) ==
    [New(layout) EXCEPT !.bytes = Cast(v.c), !.alignment = PrimitiveAlign(v.kind)]

\* glam's col(i), i counted from 0.
Col(m, i) == m.cols[i + 1]

RECURSIVE MatrixFrom(_, _, _)

\* The loop with column 1 written in place of column 2.
MatrixFromRepeatingColumn(b, m, i) ==
    IF i >= Columns(m.kind)
    THEN b
    ELSE MatrixFrom(Write(b, PrimitiveAsBytes(b.layout, Col(m, IF i = 2 THEN 1 ELSE i))),
                    m, i + 1)

\* primitive_impl_std140_std430_matrix!: for i in 0..columns, from i on.
MatrixFrom(b, m, i) ==
    IF i >= Columns(m.kind)
    THEN b
    ELSE MatrixFrom(Write(b, PrimitiveAsBytes(b.layout, Col(m, i))), m, i + 1)

MatrixAsBytes(layout, m) == MatrixFrom(New(layout), m, 0)

\* T::default() of the element types: zero scalars and vectors, glam's
\* identity matrices (1.0f32 is 0x3F800000), an empty buffer.
Default(T, layout) ==
    LET one == 1065353216
        unit(n, k) == [j \in 1..n |-> IF j = k THEN one ELSE 0]
    IN  CASE T = "Scalar" -> [kind |-> T, c |-> <<0>>]
          [] T = "Vec2"   -> [kind |-> T, c |-> <<0, 0>>]
          [] T = "Vec3"   -> [kind |-> T, c |-> <<0, 0, 0>>]
          [] T = "Vec4"   -> [kind |-> T, c |-> <<0, 0, 0, 0>>]
          [] T = "Mat3"   -> [kind |-> T,
                              cols |-> [k \in 1..3 |-> [kind |-> "Vec3", c |-> unit(3, k)]]]
          [] T = "Mat4"   -> [kind |-> T,
                              cols |-> [k \in 1..4 |-> [kind |-> "Vec4", c |-> unit(4, k)]]]
          [] T = "Bytes"  -> [kind |-> T, b |-> New(layout)]

RECURSIVE AsGpuBytes(_, _)

\* impl AsStd140 for Vec<T>: the loop over self.iter(), from element i on.
RECURSIVE VecAsStd140From(_, _, _)
VecAsStd140From(b, elems, i) ==
    IF i > Len(elems) \/ b.panicked
    THEN b
    ELSE LET std140 == AlignTo(AsGpuBytes("Std140", elems[i]), 16)
         IN  IF std140.panicked
             THEN Panic(b)
             ELSE VecAsStd140From([b EXCEPT !.bytes = @ \o std140.bytes], elems, i + 1)

\* The encoder sized by the number of elements held, not by the capacity.
VecAsStd140SizedByLen(v) ==
    LET new == New("Std140")
        filled == VecAsStd140From(new, v.elems, 1)
    IN  IF v.capacity = 0
        THEN Panic(new)
        ELSE [filled EXCEPT !.alignment = 16]

\* impl AsStd140 for Vec<T>.  total_bytes - len underflows when the elements
\* encode longer than the default element: a panic in a debug build, and in
\* a release build a wrapped count whose allocation aborts.
VecAsStd140(v) ==
    LET new == New("Std140")
        std140 == AlignTo(AsGpuBytes("Std140", Default(v.T, "Std140")), 16)
        bytes_per_element == Len(std140.bytes)
        total_bytes == bytes_per_element * v.capacity
        filled == VecAsStd140From(new, v.elems, 1)
    IN  IF v.capacity = 0 \/ std140.panicked
        THEN Panic(new)
        ELSE IF filled.panicked \/ Len(filled.bytes) > total_bytes
        THEN Panic(filled)
        ELSE [filled EXCEPT
                !.bytes = @ \o Zeros(total_bytes - Len(filled.bytes)),
                !.alignment = 16]

\* impl AsStd430 for Vec<T>: the loop over self.iter(), from element i on.
RECURSIVE VecAsStd430From(_, _, _)
VecAsStd430From(b, elems, i) ==
    IF i > Len(elems) \/ b.panicked
    THEN b
    ELSE LET std430 == Align(AsGpuBytes("Std430", elems[i]))
         IN  IF std430.panicked
             THEN Panic(b)
             ELSE VecAsStd430From([b EXCEPT !.bytes = @ \o std430.bytes], elems, i + 1)

\* The encoder with the array's alignment fixed to 16, as in std140.
VecAsStd430AlignedSixteen(v) ==
    LET new == New("Std430")
        std430 == Align(AsGpuBytes("Std430", Default(v.T, "Std430")))
        total_bytes == Len(std430.bytes) * v.capacity
        filled == VecAsStd430From(new, v.elems, 1)
    IN  IF v.capacity = 0 \/ std430.panicked
        THEN Panic(new)
        ELSE IF filled.panicked \/ Len(filled.bytes) > total_bytes
        THEN Panic(filled)
        ELSE [filled EXCEPT
                !.bytes = @ \o Zeros(total_bytes - Len(filled.bytes)),
                !.alignment = 16]

\* impl AsStd430 for Vec<T>.
VecAsStd430(v) ==
    LET new == New("Std430")
        std430 == Align(AsGpuBytes("Std430", Default(v.T, "Std430")))
        bytes_per_element == Len(std430.bytes)
        total_bytes == bytes_per_element * v.capacity
        filled == VecAsStd430From(new, v.elems, 1)
    IN  IF v.capacity = 0 \/ std430.panicked
        THEN Panic(new)
        ELSE IF filled.panicked \/ Len(filled.bytes) > total_bytes
        THEN Panic(filled)
        ELSE [filled EXCEPT
                !.bytes = @ \o Zeros(total_bytes - Len(filled.bytes)),
                !.alignment = std430.alignment]

\* as_std140 / as_std430 of a value, by its type.
AsGpuBytes(layout, v) ==
    CASE v.kind \in {"Scalar", "Vec2", "Vec3", "Vec4"} -> PrimitiveAsBytes(layout, v)
      [] v.kind \in {"Mat3", "Mat4"} -> MatrixAsBytes(layout, v)
      [] v.kind = "Bytes" -> v.b
      [] v.kind = "Vec" ->
            IF layout = "Std140" THEN VecAsStd140(v) ELSE VecAsStd430(v)

(***************************************************************************)
(* The inputs.  Component k has the four bytes k,k,k,k, so that every      *)
(* component, column and element of a value is told apart from the others  *)
(* and from padding.                                                       *)
(***************************************************************************)
Comp(k) == 16843009 * k

ElemKinds == {"Scalar", "Vec2", "Vec3", "Vec4", "Mat3", "Mat4", "Bytes"}

\* Buffers a caller can have built and passes as a composite value: a
\* 3-vector re-aligned down to 4, a scalar aligned to 24, an empty buffer.
Composites(layout) ==
    << AlignTo(Write(New(layout),
                     PrimitiveAsBytes(layout, [kind |-> "Vec3", c |-> <<Comp(121), Comp(122), Comp(123)>>])),
               4),
       AlignTo(Write(New(layout),
                     PrimitiveAsBytes(layout, [kind |-> "Scalar", c |-> <<Comp(124)>>])),
               24),
       New(layout) >>

\* The i-th sample value of type T.
Sample(T, layout, i) ==
    CASE T = "Scalar" -> [kind |-> T, c |-> <<Comp(i)>>]
      [] T = "Vec2"   -> [kind |-> T, c |-> [j \in 1..2 |-> Comp(8 * i + j)]]
      [] T = "Vec3"   -> [kind |-> T, c |-> [j \in 1..3 |-> Comp(8 * i + j)]]
      [] T = "Vec4"   -> [kind |-> T, c |-> [j \in 1..4 |-> Comp(8 * i + j)]]
      [] T = "Mat3"   -> [kind |-> T,
                          cols |-> [k \in 1..3 |->
                                      [kind |-> "Vec3",
                                       c |-> [j \in 1..3 |-> Comp(20 * i + 4 * k + j)]]]]
      [] T = "Mat4"   -> [kind |-> T,
                          cols |-> [k \in 1..4 |->
                                      [kind |-> "Vec4",
                                       c |-> [j \in 1..4 |-> Comp(20 * i + 4 * k + j)]]]]
      [] T = "Bytes"  -> [kind |-> T,
                          b |-> Composites(layout)[((i - 1) % Len(Composites(layout))) + 1]]

Samples(T, layout, n) == [i \in 1..n |-> Sample(T, layout, i)]

\* Vec<T> values: capacity 0..MaxLen, holding at most capacity elements.
Vecs(layout) ==
    UNION { { [kind |-> "Vec", T |-> T, elems |-> Samples(T, layout, n), capacity |-> cap]
              : n \in 0..cap }
            : <<T, cap>> \in ElemKinds \X (0..MaxLen) }

WriteValues(layout) ==
    { Sample(T, layout, 1) : T \in ElemKinds \ {"Bytes"} }
      \cup { [kind |-> "Bytes", b |-> Composites(layout)[i]] : i \in 1..Len(Composites(layout)) }
      \cup Vecs(layout)

AlignArgs == {0, 4, 32}

Init ==
    /\ buf \in {New(l) : l \in Layouts}
    /\ pre = buf
    /\ op = "new"
    /\ arg = <<>>
    /\ nops = 0

\* A call is made on a buffer whose earlier calls all returned.
CanCall ==
    /\ ~buf.panicked
    /\ nops < MaxOps

CanWrite ==
    /\ CanCall
    /\ Len(buf.bytes) <= MaxBytes

\* Std140Bytes::align / Std430Bytes::align
AlignOp ==
    /\ CanCall
    /\ buf' = Align(buf)
    /\ pre' = buf
    /\ op' = "align"
    /\ arg' = <<>>
    /\ nops' = nops + 1

\* Std140Bytes::write / Std430Bytes::write
WriteOp ==
    /\ CanWrite
    /\ \E v \in WriteValues(buf.layout) :
          /\ buf' = Write(buf, AsGpuBytes(buf.layout, v))
          /\ arg' = v
    /\ pre' = buf
    /\ op' = "write"
    /\ nops' = nops + 1

\* Std140Bytes::write_array / Std430Bytes::write_array
WriteArrayOp ==
    /\ CanWrite
    /\ \E T \in ElemKinds, n \in 0..MaxLen :
          LET data == Samples(T, buf.layout, n)
          IN  /\ buf' = WriteArray(buf, [i \in 1..n |-> AsGpuBytes(buf.layout, data[i])])
              /\ arg' = data
    /\ pre' = buf
    /\ op' = "write_array"
    /\ nops' = nops + 1

\* Std140Bytes::align_to / Std430Bytes::align_to
AlignToOp ==
    /\ CanCall
    /\ \E n \in AlignArgs :
          /\ buf' = AlignTo(buf, n)
          /\ arg' = n
    /\ pre' = buf
    /\ op' = "align_to"
    /\ nops' = nops + 1

Next == WriteOp \/ WriteArrayOp \/ AlignOp \/ AlignToOp

Spec == Init /\ [][Next]_vars

(***************************************************************************)
(* Properties.  Offsets are counted from 0, as in the source.              *)
(***************************************************************************)
\* n = k * a for some k; 0 is the only multiple of 0.
IsMultipleOf(n, a) == IF a = 0 THEN n = 0 ELSE n % a = 0

\* The smallest multiple of a (a >= 1) that is >= n: the one multiple of a
\* among the a numbers n .. n + a - 1.
SmallestMultipleAtLeast(a, n) == CHOOSE s \in n..(n + a - 1) : s % a = 0

Completed(call) == op = call /\ ~buf.panicked

\* C1: a completed write puts the value's bytes at the smallest multiple of
\* the value's alignment that is >= the length before the write, fills the
\* gap with zero bytes, and appends nothing after the value's bytes.
C1_WriteStartsAtNextMultiple ==
    Completed("write") =>
        LET value == AsGpuBytes(buf.layout, arg)
            start == SmallestMultipleAtLeast(value.alignment, Len(pre.bytes))
        IN  buf.bytes = pre.bytes \o Zeros(start - Len(pre.bytes)) \o value.bytes

\* A 3-vector written after a scalar: 12 zero bytes, data at offset 16.
C1_Witness ==
    /\ Completed("write")
    /\ arg.kind = "Vec3"
    /\ Len(pre.bytes) = 4
    /\ Len(buf.bytes) = 28

\* C2: after align() the length is a multiple of the running alignment, the
\* bytes added are zero, and the running alignment is what it was.
C2_AlignPadsToRunningAlignment ==
    op = "align" =>
        /\ IsMultipleOf(Len(buf.bytes), buf.alignment)
        /\ buf.alignment = pre.alignment
        /\ Len(buf.bytes) >= Len(pre.bytes)
        /\ buf.bytes = pre.bytes \o Zeros(Len(buf.bytes) - Len(pre.bytes))

\* align() after two 3-vectors (or a scalar and a 3-vector): 28 bytes
\* padded to 32.
C2_Witness ==
    /\ Completed("align")
    /\ Len(pre.bytes) = 28
    /\ Len(buf.bytes) = 32
    /\ buf.alignment = 16

\* C6: no call aborts, except a write of a Vec whose capacity is zero.
C6_OnlyZeroCapacityAborts ==
    buf.panicked => (op = "write" /\ arg.kind = "Vec" /\ arg.capacity = 0)

\* C7 as stated: no call lowers the running alignment.
C7_AlignmentNeverDecreases ==
    ~buf.panicked => buf.alignment >= pre.alignment

\* The alignment a write_array element is written with.
ArrayAlignment(layout, e) ==
    IF layout = "Std140" THEN SmallestMultipleAtLeast(16, e.alignment) ELSE e.alignment

RECURSIVE MaxArrayAlignment(_, _, _)
MaxArrayAlignment(layout, values, a) ==
    IF values = <<>>
    THEN a
    ELSE MaxArrayAlignment(layout, Tail(values),
                           Max(a, ArrayAlignment(layout, AsGpuBytes(layout, Head(values)))))

\* C7 amended: write, write_array and align never lower the running
\* alignment: a write raises it to the maximum of its value and the written
\* value's alignment, a write_array to the maximum over its elements'
\* array alignments, align keeps it; align_to(n) sets it to n.
C7_AlignmentIsMaxExceptAlignTo ==
    /\ op \in {"write", "write_array", "align"} => buf.alignment >= pre.alignment
    /\ Completed("write") =>
            buf.alignment = Max(pre.alignment, AsGpuBytes(buf.layout, arg).alignment)
    /\ Completed("write_array") =>
            buf.alignment = MaxArrayAlignment(buf.layout, arg, pre.alignment)
    /\ op = "align" => buf.alignment = pre.alignment
    /\ Completed("align_to") => buf.alignment = arg

\* A scalar written after a 3-vector: the running alignment stays 16.
C7_Witness ==
    /\ Completed("write")
    /\ arg.kind = "Scalar"
    /\ pre.alignment = 16
    /\ buf.alignment = 16

\* C8: a written matrix of N columns has alignment 16 and fills N slots of
\* 16 bytes from the 16-aligned offset it starts at.
C8_MatrixFillsWholeColumns ==
    (Completed("write") /\ arg.kind \in {"Mat3", "Mat4"}) =>
        /\ AsGpuBytes(buf.layout, arg).alignment = 16
        /\ Len(AsGpuBytes(buf.layout, arg).bytes) = 16 * Columns(arg.kind)
        /\ Len(buf.bytes) =
              SmallestMultipleAtLeast(16, Len(pre.bytes)) + 16 * Columns(arg.kind)

\* C9: column i of a written matrix is the i-th 16-byte column block of the
\* written bytes, for i = 0..N-1, with zero bytes around the columns and
\* nothing after the last column.
C9_ColumnsOnceInOrder ==
    (Completed("write") /\ arg.kind \in {"Mat3", "Mat4"}) =>
        LET start == SmallestMultipleAtLeast(16, Len(pre.bytes))
            n     == Columns(arg.kind)
            size  == Len(Cast(arg.cols[1].c))
            at(o) == buf.bytes[o + 1]
        IN  /\ Len(buf.bytes) = start + 16 * (n - 1) + size
            /\ \A o \in 0..(Len(pre.bytes) - 1) : at(o) = pre.bytes[o + 1]
            /\ \A o \in Len(pre.bytes)..(start - 1) : at(o) = 0
            /\ \A i \in 0..(n - 1) :
                  /\ \A j \in 1..size :
                        at(start + 16 * i + j - 1) = Cast(arg.cols[i + 1].c)[j]
                  /\ \A o \in (start + 16 * i + size)..(start + 16 * i + 15) :
                        o < Len(buf.bytes) => at(o) = 0

\* A 3x3 matrix written after a scalar.
C9_Witness ==
    /\ Completed("write")
    /\ arg.kind = "Mat3"
    /\ Len(pre.bytes) = 4
    /\ Len(buf.bytes) = 60

\* The encodings of a sequence of values.
EncodedAll(values) == [i \in 1..Len(values) |-> AsGpuBytes(buf.layout, values[i])]

\* The offset of the first non-zero byte at or after from (the length if
\* there is none): where the next element's data begins.
RECURSIVE FirstNonZero(_, _)
FirstNonZero(bytes, from) ==
    IF from >= Len(bytes) THEN Len(bytes)
    ELSE IF bytes[from + 1] # 0 THEN from
    ELSE FirstNonZero(bytes, from + 1)

\* The offsets at which the elements' data begin in bytes, read off the
\* bytes themselves, and after them the length of bytes.
RECURSIVE ElementStarts(_, _, _)
ElementStarts(bytes, from, data) ==
    IF data = <<>>
    THEN <<Len(bytes)>>
    ELSE LET s == FirstNonZero(bytes, from)
         IN  <<s>> \o ElementStarts(bytes, s + Len(Head(data).bytes), Tail(data))

\* Element e's bytes stand at offset start and the rest of its block, up to
\* offset end, is zero.
ElementInPlace(bytes, e, start, end) ==
    /\ start + Len(e.bytes) <= end
    /\ end <= Len(bytes)
    /\ \A j \in 1..Len(e.bytes) : bytes[start + j] = e.bytes[j]
    /\ \A o \in (start + Len(e.bytes))..(end - 1) : bytes[o + 1] = 0

PrefixKept ==
    /\ Len(buf.bytes) >= Len(pre.bytes)
    /\ \A j \in 1..Len(pre.bytes) : buf.bytes[j] = pre.bytes[j]

\* C3: a completed write_array on a Std140 buffer puts every element at an
\* offset that is a multiple of 16, in a block whose length (the stride, to
\* the next element's start or the end of the buffer) is a multiple of 16.
C3_Std140ArrayStrideMultipleOf16 ==
    (Completed("write_array") /\ buf.layout = "Std140") =>
        LET data   == EncodedAll(arg)
            starts == ElementStarts(buf.bytes, Len(pre.bytes), data)
        IN  /\ PrefixKept
            /\ Len(arg) = 0 => buf.bytes = pre.bytes
            /\ \A i \in 1..Len(arg) :
                  /\ ElementInPlace(buf.bytes, data[i], starts[i], starts[i + 1])
                  /\ starts[i] % 16 = 0
                  /\ (starts[i + 1] - starts[i]) % 16 = 0

\* Two scalars written as an array after a scalar: offsets 16 and 32.
C3_Witness ==
    /\ Completed("write_array")
    /\ buf.layout = "Std140"
    /\ Len(arg) = 2
    /\ arg[1].kind = "Scalar"
    /\ Len(pre.bytes) = 4
    /\ Len(buf.bytes) = 48

\* C4 as stated: on a Std430 buffer every array element's stride is the
\* element's alignment.
C4_Std430StrideIsAlignment ==
    (Completed("write_array") /\ buf.layout = "Std430") =>
        LET data   == EncodedAll(arg)
            starts == ElementStarts(buf.bytes, Len(pre.bytes), data)
        IN  \A i \in 1..Len(arg) : starts[i + 1] - starts[i] = data[i].alignment

\* The bytes of an array appended block by block: each block starts at the
\* next multiple of the element's alignment and is the element's bytes
\* zero-padded to a multiple of that alignment.
RECURSIVE PackedBlocks(_, _)
PackedBlocks(bytes, data) ==
    IF data = <<>>
    THEN bytes
    ELSE LET e     == Head(data)
             start == SmallestMultipleAtLeast(e.alignment, Len(bytes))
             size  == SmallestMultipleAtLeast(e.alignment, Len(e.bytes))
         IN  PackedBlocks(bytes \o Zeros(start - Len(bytes))
                                \o e.bytes \o Zeros(size - Len(e.bytes)),
                          Tail(data))

\* C4 amended: on a Std430 buffer every array element is a block at a
\* multiple of its alignment, as long as its encoded length rounded up to
\* its alignment; for the built-in types that length is the stride.
C4_Std430StrideIsRoundedLength ==
    (Completed("write_array") /\ buf.layout = "Std430") =>
        LET data   == EncodedAll(arg)
            starts == ElementStarts(buf.bytes, Len(pre.bytes), data)
        IN  /\ buf.bytes = PackedBlocks(pre.bytes, data)
            /\ \A i \in 1..Len(arg) :
                  /\ ElementInPlace(buf.bytes, data[i], starts[i], starts[i + 1])
                  /\ starts[i] % data[i].alignment = 0
                  /\ arg[i].kind # "Bytes" =>
                        starts[i + 1] - starts[i] =
                            SmallestMultipleAtLeast(data[i].alignment, Len(data[i].bytes))

\* Two 3x3 matrices written as an array: a stride of 48, alignment 16.
C4_Witness ==
    /\ Completed("write_array")
    /\ buf.layout = "Std430"
    /\ Len(arg) = 2
    /\ arg[1].kind = "Mat3"
    /\ buf.alignment = 16
    /\ Len(buf.bytes) = Len(pre.bytes) + 96

\* The stride of a Vec<T>: the element type's encoded length rounded up to
\* 16 (Std140) or to the element's alignment (Std430).
VecStride(layout, T) ==
    LET e == AsGpuBytes(layout, Default(T, layout))
    IN  SmallestMultipleAtLeast(IF layout = "Std140" THEN 16 ELSE e.alignment,
                                Len(e.bytes))

\* C5: a written Vec<T> of capacity c holding n elements takes stride * c
\* bytes: the n elements, each zero-padded to the stride, then zero bytes.
C5_VecLengthIsStrideTimesCapacity ==
    (Completed("write") /\ arg.kind = "Vec") =>
        LET stride == VecStride(buf.layout, arg.T)
            n      == Len(arg.elems)
            first  == Len(buf.bytes) - stride * arg.capacity
            data   == EncodedAll(arg.elems)
            value  == AsGpuBytes(buf.layout, arg)
        IN  /\ Len(value.bytes) = stride * arg.capacity
            /\ first >= Len(pre.bytes)
            /\ PrefixKept
            /\ \A o \in Len(pre.bytes)..(first - 1) : buf.bytes[o + 1] = 0
            /\ \A i \in 1..n :
                  ElementInPlace(buf.bytes, data[i],
                                 first + stride * (i - 1), first + stride * i)
            /\ \A o \in (first + stride * n)..(Len(buf.bytes) - 1) : buf.bytes[o + 1] = 0

\* A Vec of scalars with capacity 2 holding one element, Std140: 32 bytes.
C5_Witness ==
    /\ Completed("write")
    /\ arg.kind = "Vec"
    /\ arg.T = "Scalar"
    /\ arg.capacity = 2
    /\ Len(arg.elems) = 1
    /\ buf.layout = "Std140"
    /\ Len(buf.bytes) = Len(pre.bytes) + 32

\* C10: writing a Vec of a built-in element type whose capacity is its
\* length leaves the bytes and the running alignment that write_array over
\* the same elements leaves.
C10_VecWriteAgreesWithWriteArray ==
    (/\ op = "write"
     /\ arg.kind = "Vec"
     /\ arg.T # "Bytes"
     /\ arg.capacity = Len(arg.elems)) =>
        LET viaArray == WriteArray(pre, EncodedAll(arg.elems))
        IN  /\ buf.bytes = viaArray.bytes
            /\ buf.alignment = viaArray.alignment

\* A full Vec of two 3-vectors written after a scalar, Std430.
C10_Witness ==
    /\ Completed("write")
    /\ arg.kind = "Vec"
    /\ arg.T = "Vec3"
    /\ arg.capacity = 2
    /\ Len(arg.elems) = 2
    /\ buf.layout = "Std430"
    /\ Len(pre.bytes) = 4
    /\ Len(buf.bytes) = 48
====
